---- MODULE Spec2Model ----
(***************************************************************************)
(* Model of scripts/reprocess_null_from_address.py: the token-transfer     *)
(* authority decoder (parse_token_transfer_authority), the instruction     *)
(* scan (extract_from_address_from_transaction) and the reprocessing loop  *)
(* (reprocess_transactions).                                               *)
(*                                                                         *)
(* Three specifications share the module:                                  *)
(*   SpecDecode    one call of parse_token_transfer_authority              *)
(*   SpecExtract   one call of extract_from_address_from_transaction,      *)
(*                 one instruction of the for loop per step                *)
(*   SpecReprocess one run of reprocess_transactions against a database    *)
(* Each specification leaves the other two's variables idle.               *)
(***************************************************************************)
EXTENDS Integers, Sequences, FiniteSets, TLC

VARIABLES
    decode,   \* one call of parse_token_transfer_authority
    scan,     \* one call of extract_from_address_from_transaction
    job       \* one run of reprocess_transactions

vars == <<decode, scan, job>>

----------------------------------------------------------------------------
(* Values *)

\* Python's None
None == "None"

\* Python truthiness of an Optional[str]: None and "" are falsy
Truthy(v) == v # None /\ v # ""

\* Python's `a or b`
PyOr(a, b) == IF Truthy(a) THEN a ELSE b

TOKEN_PROGRAM_ID == "TokenkegQfeZyiNwAJbNbGKPFXCWuBvf9Ss623VQ5DA"
TOKEN_2022_PROGRAM_ID == "TokenzQdBNbLqP5VEhdkAS6EPFLC1PHnBqCXEpPxuEb"
\* a program that is not a token program (the system program)
SYSTEM_PROGRAM_ID == "11111111111111111111111111111111"

\* A solders Pubkey; str(pubkey) is its base58 text
Pubkey(s) == [pubkey |-> s]
Str(k) == k.pubkey

\* seq[i] with Python's zero-based index
At(seq, i) == seq[i + 1]

\* minimum length of the data of a transfer instruction
MinDataLen == 9
\* instruction types (first data byte)
Transfer == 3
TransferChecked == 12
\* accounts a Transfer / TransferChecked needs
TransferMinAccounts == 3
TransferCheckedMinAccounts == 4
\* zero-based position of the authority
TransferAuthorityPos == 2
TransferCheckedAuthorityPos == 3

----------------------------------------------------------------------------
(* Bounds *)

\* largest account index an instruction refers to
MaxAcctIndex == 3
\* longest account list of an instruction
MaxAccounts == 4
\* longest instruction list of a transaction
MaxInstr == 3
\* rows of the transactions table
MaxRows == 3

\* --limit when not given
DefaultLimit == 1000

SeqsUpTo(S, n) == UNION {[1..k -> S] : k \in 0..n}

----------------------------------------------------------------------------
(* parse_token_transfer_authority *)

\* faulty variant: the position is used as the table index, not the index listed there
AuthorityAt_direct(account_keys, instruction_accounts, pos) ==
    IF pos < Len(account_keys) THEN Str(At(account_keys, pos)) ELSE None

\* the account the instruction lists at position pos, looked up in the table
AuthorityAt(account_keys, instruction_accounts, pos) ==
    LET authority_index == At(instruction_accounts, pos)
    IN  IF authority_index < Len(account_keys)
        THEN Str(At(account_keys, authority_index))
        ELSE None

\* lines 46-60: the dispatch on the instruction type
DispatchInstructionType(instruction_data, account_keys, instruction_accounts) ==
    LET instruction_type == At(instruction_data, 0)
    IN  IF instruction_type = Transfer
        THEN IF Len(instruction_accounts) >= TransferMinAccounts
             THEN AuthorityAt(account_keys, instruction_accounts, TransferAuthorityPos)
             ELSE None
        ELSE IF instruction_type = TransferChecked
        THEN IF Len(instruction_accounts) >= TransferCheckedMinAccounts
             THEN AuthorityAt(account_keys, instruction_accounts, TransferCheckedAuthorityPos)
             ELSE None
        ELSE None

\* faulty variant: the length check lets any non-empty data through
parse_token_transfer_authority_nonempty(instruction_data, account_keys, instruction_accounts) ==
    IF Len(instruction_data) < 1 THEN None
    ELSE DispatchInstructionType(instruction_data, account_keys, instruction_accounts)

parse_token_transfer_authority(instruction_data, account_keys, instruction_accounts) ==
    IF Len(instruction_data) < MinDataLen THEN None
    ELSE DispatchInstructionType(instruction_data, account_keys, instruction_accounts)

----------------------------------------------------------------------------
(* Inputs of the decoder *)

\* instruction data: a first byte followed by zero bytes
Payload(op, n) == [k \in 1..n |-> IF k = 1 THEN op ELSE 0]
Opcodes == {0, Transfer, Transfer + 1, TransferChecked - 1, TransferChecked, 255}
DataLens == {0, MinDataLen - 1, MinDataLen, MinDataLen + 1}
DataPool == {Payload(op, n) : op \in Opcodes, n \in DataLens}

\* account tables
Keys(s) == [k \in 1..Len(s) |-> Pubkey(s[k])]
TableABC == Keys(<<"A", "B", "C">>)
TableABCD == Keys(<<"A", "B", "C", "D">>)
DecodeTables == {Keys(<< >>), Keys(<<"A", "B">>), TableABC, TableABCD}

AccountLists == SeqsUpTo(0..MaxAcctIndex, MaxAccounts)

IdleDecode == [pc |-> "idle"]
IdleScan == [pc |-> "idle"]
IdleJob == [pc |-> "idle"]

InitDecode ==
    /\ decode \in {[pc |-> "call", instruction_data |-> d, account_keys |-> t,
                    instruction_accounts |-> a, ret |-> None] :
                        d \in DataPool, t \in DecodeTables, a \in AccountLists}
    /\ scan = IdleScan
    /\ job = IdleJob

\* the call runs to its return statement
ParseCall ==
    /\ decode.pc = "call"
    /\ decode' = [decode EXCEPT !.pc = "returned",
                     !.ret = parse_token_transfer_authority(
                                 decode.instruction_data, decode.account_keys,
                                 decode.instruction_accounts)]
    /\ UNCHANGED <<scan, job>>

NextDecode == ParseCall

SpecDecode == InitDecode /\ [][NextDecode]_vars

----------------------------------------------------------------------------
(* Instructions of a transaction message *)

\* a compiled instruction (has program_id_index, accounts, data)
Raw(pi, accts, data) ==
    [tag |-> "raw", program_id_index |-> pi, accounts |-> accts, data |-> data]

\* a ParsedInstruction (has parsed and the program's own id)
Parsed(program, parsed) == [tag |-> "parsed", program_id |-> program, parsed |-> parsed]

\* a partially decoded instruction: neither parsed nor program_id_index
PartiallyDecoded(program) == [tag |-> "partially_decoded", program_id |-> program]

\* values of instruction.parsed: a str, or a dict with or without "info"
ParsedText == [isdict |-> FALSE]
ParsedDict(has_info, info) == [isdict |-> TRUE, has_info |-> has_info, info |-> info]
\* values of parsed["info"]: a dict, or None
InfoDict(d) == [isdict |-> TRUE, dict |-> d]
InfoNone == [isdict |-> FALSE]

Missing == "<missing>"
\* the dict holding the keys whose value is given
Fields(authority, owner, multisigAuthority) ==
    LET val == [k \in {"authority", "owner", "multisigAuthority"} |->
                   IF k = "authority" THEN authority
                   ELSE IF k = "owner" THEN owner ELSE multisigAuthority]
    IN  [k \in {x \in DOMAIN val : val[x] # Missing} |-> val[k]]
EmptyDict == [k \in {} |-> None]

\* dict.get(key)
Get(d, key) == IF key \in DOMAIN d THEN d[key] ELSE None

\* an optional list (message.account_keys, message.instructions)
List(s) == [isNone |-> FALSE, items |-> s]
NoneList == [isNone |-> TRUE, items |-> << >>]

----------------------------------------------------------------------------
(* extract_from_address_from_transaction: one iteration of the for loop *)

Return(v, line) == [kind |-> "return", value |-> v, line |-> line, exc |-> None]
Continue == [kind |-> "continue", value |-> None, line |-> 0, exc |-> None]
Raise(e) == [kind |-> "raise", value |-> None, line |-> 0, exc |-> e]

\* faulty variant: owner is read before authority
ParsedAuthority_ownerFirst(info) ==
    PyOr(PyOr(Get(info, "owner"), Get(info, "authority")), Get(info, "multisigAuthority"))

\* line 104
ParsedAuthority(info) ==
    PyOr(PyOr(Get(info, "authority"), Get(info, "owner")), Get(info, "multisigAuthority"))

\* lines 99-107
ParsedBranch(instruction) ==
    LET parsed == instruction.parsed
    IN  IF parsed.isdict
        THEN LET info == IF parsed.has_info THEN parsed.info ELSE InfoDict(EmptyDict)
             IN  IF ~info.isdict
                 THEN Raise("AttributeError")
                 ELSE LET authority == ParsedAuthority(info.dict)
                      IN  IF Truthy(authority) THEN Return(authority, 106) ELSE Continue
        ELSE Continue

\* line 114
IsTokenProgram(program_id) == program_id \in {TOKEN_PROGRAM_ID, TOKEN_2022_PROGRAM_ID}

\* lines 110-126
RawBranch(account_keys, instruction) ==
    IF instruction.tag # "raw" THEN Raise("AttributeError")
    ELSE IF account_keys.isNone THEN Raise("TypeError")
    ELSE IF ~(instruction.program_id_index < Len(account_keys.items)) THEN Raise("IndexError")
    ELSE LET program_id == Str(At(account_keys.items, instruction.program_id_index))
         IN  IF IsTokenProgram(program_id)
             THEN LET from_addr == parse_token_transfer_authority(
                                       instruction.data, account_keys.items,
                                       instruction.accounts)
                  IN  IF Truthy(from_addr) THEN Return(from_addr, 126) ELSE Continue
             ELSE Continue

\* lines 97-126: the body of the inner try
TryBody(account_keys, instruction) ==
    IF instruction.tag = "parsed"
    THEN ParsedBranch(instruction)
    ELSE RawBranch(account_keys, instruction)

\* faulty variant: the handler lets the exception go on
InstructionExcept_reraise(outcome) == outcome

\* lines 127-129: except Exception: continue
InstructionExcept(outcome) == IF outcome.kind = "raise" THEN Continue ELSE outcome

\* lines 95-129: one iteration
HandleInstruction(account_keys, instruction) ==
    InstructionExcept(TryBody(account_keys, instruction))

----------------------------------------------------------------------------
(* extract_from_address_from_transaction: the call *)

\* what rpc_client.get_transaction gives for a signature
RpcError == [kind |-> "rpc_error"]
NoValue == [kind |-> "no_value"]
NoTx == [kind |-> "no_tx"]
NoInnerTx == [kind |-> "no_inner_tx"]
NoMessage == [kind |-> "no_message"]
Ok(account_keys, instructions) ==
    [kind |-> "ok", account_keys |-> account_keys, instructions |-> instructions]

StartScan(response) ==
    [pc |-> "fetch", response |-> response, idx |-> 1, result |-> None, line |-> 0,
     inspected |-> {}, raised |-> {}, escaped |-> FALSE]

\* faulty variant: the exception leaves the function
OuterExcept_propagate(s) == [s EXCEPT !.pc = "done", !.escaped = TRUE]

\* lines 134-136: except Exception: return None
OuterExcept(s) == [s EXCEPT !.pc = "done", !.result = None, !.line = 136]

\* lines 67-91: fetch the transaction and take its message
FetchStep(s) ==
    LET r == s.response
    IN  IF r.kind = "rpc_error" THEN OuterExcept(s)
        ELSE IF r.kind = "no_value"
        THEN [s EXCEPT !.pc = "done", !.result = None, !.line = 78]
        ELSE IF r.kind \in {"no_tx", "no_inner_tx", "no_message"}
        THEN [s EXCEPT !.pc = "done", !.result = None, !.line = 84]
        ELSE IF r.instructions.isNone
        THEN OuterExcept(s)   \* iterating None raises TypeError at line 94
        ELSE [s EXCEPT !.pc = "loop"]

\* faulty variant: the loop leaves the last instruction out
ScanDone_early(s) == s.idx >= Len(s.response.instructions.items)

\* line 94: the for loop has no instruction left
ScanDone(s) == s.idx > Len(s.response.instructions.items)

\* faulty variant: a found authority is kept and the loop goes on
ScanStep_noReturn(s) ==
    LET out == HandleInstruction(s.response.account_keys,
                                 s.response.instructions.items[s.idx])
    IN  [s EXCEPT !.inspected = @ \cup {s.idx},
                  !.result = IF out.kind = "return" THEN out.value ELSE @,
                  !.idx = @ + 1]

\* lines 94-129: the iteration on instruction idx
ScanStep(s) ==
    LET instruction == s.response.instructions.items[s.idx]
        tried == TryBody(s.response.account_keys, instruction)
        out == InstructionExcept(tried)
        seen == [s EXCEPT !.inspected = @ \cup {s.idx},
                          !.raised = IF tried.kind = "raise" THEN @ \cup {s.idx} ELSE @]
    IN  IF out.kind = "return"
        THEN [seen EXCEPT !.pc = "done", !.result = out.value, !.line = out.line]
        ELSE IF out.kind = "raise"
        THEN OuterExcept(seen)
        ELSE [seen EXCEPT !.idx = @ + 1]

\* lines 131-132
ExhaustedStep(s) == [s EXCEPT !.pc = "done", !.result = None, !.line = 132]

FetchTransaction ==
    /\ scan.pc = "fetch"
    /\ scan' = FetchStep(scan)
    /\ UNCHANGED <<decode, job>>

ScanInstruction ==
    /\ scan.pc = "loop"
    /\ ~ScanDone(scan)
    /\ scan' = ScanStep(scan)
    /\ UNCHANGED <<decode, job>>

ScanExhausted ==
    /\ scan.pc = "loop"
    /\ ScanDone(scan)
    /\ scan' = ExhaustedStep(scan)
    /\ UNCHANGED <<decode, job>>

\* lines 188-200: what the caller makes of the returned value
ResultTag(from_address) == IF Truthy(from_address) THEN "Found" ELSE "NotFound"

----------------------------------------------------------------------------
(* Inputs of the scan *)

\* tables holding a token program at position 0, at position 1, nowhere
TableToken == Keys(<<TOKEN_PROGRAM_ID, "A", "B", "C">>)
TableToken2022 == Keys(<<"A", TOKEN_2022_PROGRAM_ID, SYSTEM_PROGRAM_ID>>)
ScanTables == {List(TableToken), List(TableToken2022), NoneList}

\* position 4 is outside both tables
ProgramIndexes == {0, 1, 4}
ScanAccounts == {<<1, 2>>, <<3, 2, 0>>, <<1, 2, 3, 2>>, <<1, 2, 4, 4>>}
ScanData == {<< >>, Payload(Transfer, MinDataLen), Payload(TransferChecked, MinDataLen),
             Payload(7, MinDataLen)}
RawPool == {Raw(pi, a, d) : pi \in ProgramIndexes, a \in ScanAccounts, d \in ScanData}

ParsedValues ==
    {ParsedText, ParsedDict(FALSE, InfoNone), ParsedDict(TRUE, InfoNone)} \cup
    {ParsedDict(TRUE, InfoDict(Fields(a, o, m))) :
        a \in {Missing, "", "AUTH"}, o \in {Missing, "", "OWNER"}, m \in {Missing, "MULTI"}}
ParsedPool == {Parsed(p, v) : p \in {TOKEN_PROGRAM_ID, SYSTEM_PROGRAM_ID}, v \in ParsedValues}

FullPool == RawPool \cup ParsedPool \cup {PartiallyDecoded(TOKEN_PROGRAM_ID)}

CorePool ==
    { Raw(0, <<1, 2, 3>>, Payload(Transfer, MinDataLen)),
      Raw(1, <<0, 2, 0, 2>>, Payload(TransferChecked, MinDataLen)),
      Raw(1, <<0, 2, 0>>, Payload(Transfer, MinDataLen)),
      Raw(4, <<1, 2, 3>>, Payload(Transfer, MinDataLen)),
      Raw(0, <<1, 2, 3>>, << >>),
      Raw(0, <<1, 2, 4>>, Payload(Transfer, MinDataLen)),
      Raw(0, <<1, 2>>, Payload(Transfer, MinDataLen)),
      Raw(0, <<1, 2, 3>>, Payload(7, MinDataLen)),
      Parsed(TOKEN_PROGRAM_ID, ParsedDict(TRUE, InfoDict(Fields(Missing, "OWNER", Missing)))),
      Parsed(SYSTEM_PROGRAM_ID, ParsedDict(TRUE, InfoDict(Fields("AUTH", Missing, Missing)))),
      Parsed(TOKEN_PROGRAM_ID, ParsedDict(FALSE, InfoNone)),
      Parsed(TOKEN_PROGRAM_ID, ParsedDict(TRUE, InfoNone)),
      Parsed(TOKEN_PROGRAM_ID, ParsedText),
      PartiallyDecoded(SYSTEM_PROGRAM_ID) }

\* lists over the core pool, and every instruction before and after a core one
InstructionLists ==
    SeqsUpTo(CorePool, MaxInstr)
        \cup {<<a>> : a \in FullPool}
        \cup {<<a, b>> : a \in FullPool, b \in CorePool}
        \cup {<<b, a>> : a \in FullPool, b \in CorePool}

ScanResponses ==
    {RpcError, NoValue, NoTx, NoInnerTx, NoMessage}
        \cup {Ok(t, NoneList) : t \in ScanTables}
        \cup {Ok(t, List(l)) : t \in ScanTables, l \in InstructionLists}

\* answers of the RPC during a reprocessing run
ReprocessResponses ==
    { RpcError, NoValue, NoMessage,
      Ok(List(TableToken), List(<< >>)),
      Ok(List(TableToken), List(<<Raw(0, <<1, 2, 3>>, << >>)>>)),
      Ok(List(TableToken), List(<<Raw(4, <<1, 2, 3>>, Payload(Transfer, MinDataLen)),
                                  Raw(0, <<1, 2, 3>>, Payload(Transfer, MinDataLen))>>)),
      Ok(List(TableToken2022),
         List(<<Parsed(TOKEN_PROGRAM_ID,
                       ParsedDict(TRUE, InfoDict(Fields(Missing, "OWNER", Missing))))>>)) }

InitExtract ==
    /\ scan \in {StartScan(r) : r \in ScanResponses}
    /\ decode = IdleDecode
    /\ job = IdleJob

NextExtract == FetchTransaction \/ ScanInstruction \/ ScanExhausted

SpecExtract == InitExtract /\ [][NextExtract]_vars

----------------------------------------------------------------------------
(* reprocess_transactions *)

\* rows of the transactions table; block_time is the row's position
RowsWithNull(db, wallet_address, network) ==
    {r \in 1..Len(db) : /\ db[r].wallet_address = wallet_address
                        /\ db[r].network = network
                        /\ db[r].from_address = None}

RECURSIVE OrderDesc(_)
\* ORDER BY block_time DESC
OrderDesc(S) ==
    IF S = {} THEN << >>
    ELSE LET m == CHOOSE x \in S : \A y \in S : y <= x
         IN  <<m>> \o OrderDesc(S \ {m})

\* lines 158-168: the SELECT ... LIMIT and fetchall
SelectNull(db, wallet_address, network, limit) ==
    LET ordered == OrderDesc(RowsWithNull(db, wallet_address, network))
        n == IF limit < Len(ordered) THEN limit ELSE Len(ordered)
    IN  [k \in 1..n |-> [signature |-> db[ordered[k]].signature, block_time |-> ordered[k]]]

\* lines 190-194: the UPDATE
UpdateFromAddress(db, from_address, signature, network) ==
    [r \in 1..Len(db) |->
        IF db[r].signature = signature /\ db[r].network = network
        THEN [db[r] EXCEPT !.from_address = from_address]
        ELSE db[r]]

\* lines 149-180
FetchRowsStep(j) ==
    LET transactions == SelectNull(j.db, j.wallet_address, j.network, j.limit)
        total == Len(transactions)
    IN  IF total = 0
        THEN [j EXCEPT !.pc = "closed", !.transactions = transactions, !.total = total]
        ELSE [j EXCEPT !.pc = "loop", !.transactions = transactions, !.total = total,
                       !.i = 1, !.updated = 0, !.failed = 0, !.not_found = 0]

\* lines 203-204 and the loop header: the next record, or the summary
Advance(j) ==
    IF j.i < j.total
    THEN [j EXCEPT !.pc = "loop", !.i = @ + 1]
    ELSE [j EXCEPT !.pc = "summary"]

\* lines 188-194: the UPDATE runs in the connection's open transaction
ExecuteUpdateStep(j, from_address) ==
    [j EXCEPT !.pc = "commit",
              !.from_address = from_address,
              !.txn = UpdateFromAddress(j.txn, from_address,
                                        j.transactions[j.i].signature, j.network)]

\* faulty variant: the commit is left out
CommitStep_noCommit(j) ==
    Advance([j EXCEPT !.updated = @ + 1,
                      !.results = Append(@, j.from_address)])

\* lines 196-198
CommitStep(j) ==
    Advance([j EXCEPT !.db = j.txn,
                      !.updated = @ + 1,
                      !.results = Append(@, j.from_address)])

\* lines 199-200
NotFoundStep(j, from_address) ==
    Advance([j EXCEPT !.from_address = from_address,
                      !.not_found = @ + 1,
                      !.results = Append(@, from_address)])

\* lines 214-216 after conn.commit() raised: close() drops the open transaction
CommitFailsStep(j) == [j EXCEPT !.pc = "closed", !.txn = j.db]

\* lines 206-216
SummaryStep(j) == [j EXCEPT !.pc = "closed", !.summary = TRUE]

FetchRows ==
    /\ job.pc = "start"
    /\ job' = FetchRowsStep(job)
    /\ UNCHANGED <<decode, scan>>

\* line 186: the call; the RPC answers for the record's signature
CallExtract ==
    /\ job.pc = "loop"
    /\ \E response \in ReprocessResponses : scan' = StartScan(response)
    /\ job' = [job EXCEPT !.pc = "extracting"]
    /\ UNCHANGED decode

ExecuteUpdate ==
    /\ job.pc = "extracting"
    /\ scan.pc = "done"
    /\ Truthy(scan.result)
    /\ job' = ExecuteUpdateStep(job, scan.result)
    /\ scan' = IdleScan
    /\ UNCHANGED decode

Commit ==
    /\ job.pc = "commit"
    /\ job' = CommitStep(job)
    /\ UNCHANGED <<decode, scan>>

CommitFails ==
    /\ job.pc = "commit"
    /\ job' = CommitFailsStep(job)
    /\ UNCHANGED <<decode, scan>>

CountNotFound ==
    /\ job.pc = "extracting"
    /\ scan.pc = "done"
    /\ ~Truthy(scan.result)
    /\ job' = NotFoundStep(job, scan.result)
    /\ scan' = IdleScan
    /\ UNCHANGED decode

Summary ==
    /\ job.pc = "summary"
    /\ job' = SummaryStep(job)
    /\ UNCHANGED <<decode, scan>>

----------------------------------------------------------------------------
(* Inputs of the run *)

Signatures == {"sig1", "sig2"}
RowPool ==
    {[signature |-> s, wallet_address |-> w[1], network |-> w[2], from_address |-> f] :
        s \in Signatures,
        w \in {<<"W", "mainnet">>, <<"W2", "mainnet">>, <<"W", "devnet">>},
        f \in {None, "Z"}}

Databases == SeqsUpTo(RowPool, MaxRows)

StartJob(db, limit) ==
    [pc |-> "start", wallet_address |-> "W", network |-> "mainnet", limit |-> limit,
     db |-> db, txn |-> db, db0 |-> db,
     transactions |-> << >>, total |-> 0, i |-> 0,
     updated |-> 0, failed |-> 0, not_found |-> 0,
     from_address |-> None, results |-> << >>, summary |-> FALSE]

InitReprocess ==
    /\ job \in {StartJob(db, limit) : db \in Databases, limit \in {1, DefaultLimit}}
    /\ scan = IdleScan
    /\ decode = IdleDecode

NextReprocess ==
    \/ FetchRows
    \/ CallExtract
    \/ FetchTransaction
    \/ ScanInstruction
    \/ ScanExhausted
    \/ ExecuteUpdate
    \/ Commit
    \/ CommitFails
    \/ CountNotFound
    \/ Summary

SpecReprocess == InitReprocess /\ [][NextReprocess]_vars

----------------------------------------------------------------------------
(* Claims about parse_token_transfer_authority (SpecDecode) *)

DecodeOpcode == At(decode.instruction_data, 0)
DecodeListed(pos) == At(decode.instruction_accounts, pos)

\* C3: with at least 9 data bytes, opcode 3 and at least 3 account indices
\* give the table address at accountIndices[2], opcode 12 and at least 4
\* account indices give the table address at accountIndices[3], provided the
\* index is below the table length; [0,1,2] on [A,B,C] gives C and
\* [0,1,2,3] on [A,B,C,D] gives D.
C3_AuthorityPosition ==
    (decode.pc = "returned" /\ Len(decode.instruction_data) >= 9) =>
        /\ (/\ DecodeOpcode = 3
            /\ Len(decode.instruction_accounts) >= 3
            /\ DecodeListed(2) < Len(decode.account_keys))
           => decode.ret = decode.account_keys[DecodeListed(2) + 1].pubkey
        /\ (/\ DecodeOpcode = 12
            /\ Len(decode.instruction_accounts) >= 4
            /\ DecodeListed(3) < Len(decode.account_keys))
           => decode.ret = decode.account_keys[DecodeListed(3) + 1].pubkey
        /\ (/\ DecodeOpcode = 3
            /\ decode.instruction_accounts = <<0, 1, 2>>
            /\ decode.account_keys = TableABC)
           => decode.ret = "C"
        /\ (/\ DecodeOpcode = 12
            /\ decode.instruction_accounts = <<0, 1, 2, 3>>
            /\ decode.account_keys = TableABCD)
           => decode.ret = "D"

\* a TransferChecked whose listed authority is not at table position 3
C3_Witness ==
    /\ decode.pc = "returned"
    /\ Len(decode.instruction_data) >= 9
    /\ DecodeOpcode = 12
    /\ decode.instruction_accounts = <<3, 2, 1, 0>>
    /\ decode.account_keys = TableABCD
    /\ decode.ret = "A"

\* C4: decoding yields None when the data is shorter than 9 bytes, when the
\* opcode is neither 3 nor 12, when opcode 3 has fewer than 3 account indices
\* or opcode 12 fewer than 4, or when the index at the authority position is
\* not below the table length.
C4_Rejected ==
    LET short == Len(decode.instruction_data) < 9
        op == DecodeOpcode
        n == Len(decode.instruction_accounts)
    IN  decode.pc = "returned" =>
            /\ short => decode.ret = None
            /\ (~short /\ op # 3 /\ op # 12) => decode.ret = None
            /\ (~short /\ op = 3 /\ n < 3) => decode.ret = None
            /\ (~short /\ op = 12 /\ n < 4) => decode.ret = None
            /\ (~short /\ op = 3 /\ n >= 3 /\ DecodeListed(2) >= Len(decode.account_keys))
               => decode.ret = None
            /\ (~short /\ op = 12 /\ n >= 4 /\ DecodeListed(3) >= Len(decode.account_keys))
               => decode.ret = None
            /\ decode.ret = None \/ \E k \in 1..Len(decode.account_keys) :
                                        decode.ret = decode.account_keys[k].pubkey

\* an 8-byte Transfer that would otherwise name an account
C4_Witness ==
    /\ decode.pc = "returned"
    /\ Len(decode.instruction_data) = 8
    /\ decode.instruction_data[1] = 3
    /\ decode.instruction_accounts = <<0, 1, 2>>
    /\ decode.account_keys = TableABC
    /\ decode.ret = None

----------------------------------------------------------------------------
(* Claims about extract_from_address_from_transaction (SpecExtract) *)

Done == scan.pc = "done"
\* the call got a message with an instruction list
HasList == scan.response.kind = "ok" /\ ~scan.response.instructions.isNone
NInstr == Len(scan.response.instructions.items)
Instr(k) == scan.response.instructions.items[k]
\* the iteration on instruction k returns an authority
Yields(k) == HandleInstruction(scan.response.account_keys, Instr(k)).kind = "return"
YieldOf(k) == HandleInstruction(scan.response.account_keys, Instr(k)).value

\* C1: the instructions are scanned in their order and the authority of the
\* first instruction that yields one is returned; the scan stops there, so no
\* later instruction is inspected and the result never comes from a later one.
C1_FirstAuthorityWins ==
    (scan.pc \in {"loop", "done"} /\ HasList) =>
        /\ scan.pc = "loop" => scan.inspected = 1..(scan.idx - 1)
        /\ (Done /\ Truthy(scan.result)) =>
               /\ scan.idx \in 1..NInstr
               /\ scan.inspected = 1..scan.idx
               /\ scan.result = YieldOf(scan.idx)
               /\ \A k \in 1..(scan.idx - 1) : ~Yields(k)
        /\ (Done /\ \E k \in 1..NInstr : Yields(k)) => Truthy(scan.result)

\* the second of three instructions is returned, the third would yield too
C1_Witness ==
    /\ Done /\ HasList /\ NInstr = 3
    /\ scan.idx = 2
    /\ scan.inspected = {1, 2}
    /\ Yields(3)
    /\ YieldOf(3) # scan.result
    /\ scan.result = YieldOf(2)

\* the claim's decode failures of a raw instruction
ListedOutOfRange(keys, ins, pos) ==
    Len(ins.accounts) > pos /\ ins.accounts[pos + 1] >= Len(keys)
DecodeFails(keys, ins) ==
    /\ ins.tag = "raw"
    /\ \/ ins.program_id_index >= Len(keys)
       \/ /\ keys[ins.program_id_index + 1].pubkey
                 \in {TOKEN_PROGRAM_ID, TOKEN_2022_PROGRAM_ID}
          /\ \/ Len(ins.data) < 9
             \/ ins.data[1] = 3 /\ ListedOutOfRange(keys, ins, 2)
             \/ ins.data[1] = 12 /\ ListedOutOfRange(keys, ins, 3)
\* a valid token transfer and the authority it names
ValidTransfer(keys, ins) ==
    /\ ins.tag = "raw"
    /\ ins.program_id_index < Len(keys)
    /\ keys[ins.program_id_index + 1].pubkey \in {TOKEN_PROGRAM_ID, TOKEN_2022_PROGRAM_ID}
    /\ Len(ins.data) >= 9
    /\ \/ ins.data[1] = 3 /\ Len(ins.accounts) >= 3 /\ ins.accounts[3] < Len(keys)
       \/ ins.data[1] = 12 /\ Len(ins.accounts) >= 4 /\ ins.accounts[4] < Len(keys)
TransferAuthority(keys, ins) ==
    keys[ins.accounts[IF ins.data[1] = 3 THEN 3 ELSE 4] + 1].pubkey

\* C2: an instruction that fails to decode contributes nothing and the scan
\* goes on after it: a valid token transfer at a later position is returned.
C2_FailureDoesNotAbort ==
    (Done /\ HasList /\ ~scan.response.account_keys.isNone) =>
        LET keys == scan.response.account_keys.items
            fails(i) == DecodeFails(keys, Instr(i)) \/ i \in scan.raised
        IN  /\ \A i \in scan.inspected : fails(i) => (scan.idx > i /\ scan.line # 136)
            /\ \A j \in 1..NInstr :
                   (/\ ValidTransfer(keys, Instr(j))
                    /\ \E i \in 1..(j - 1) : fails(i)
                    /\ \A k \in 1..(j - 1) : ~Yields(k))
                   => /\ scan.result = TransferAuthority(keys, Instr(j))
                      /\ scan.idx = j
                      /\ scan.line = 126

\* a program index out of range, then a valid transfer
C2_Witness ==
    /\ Done /\ HasList /\ ~scan.response.account_keys.isNone
    /\ NInstr >= 2
    /\ Instr(1).tag = "raw"
    /\ Instr(1).program_id_index >= Len(scan.response.account_keys.items)
    /\ 1 \in scan.raised
    /\ ValidTransfer(scan.response.account_keys.items, Instr(2))
    /\ scan.idx = 2
    /\ scan.result = TransferAuthority(scan.response.account_keys.items, Instr(2))

\* the named fields of a structured instruction
FieldsOf(ins) ==
    IF ins.parsed.isdict /\ ins.parsed.has_info /\ ins.parsed.info.isdict
    THEN ins.parsed.info.dict
    ELSE EmptyDict
Present(d, key) == key \in DOMAIN d /\ d[key] # "" /\ d[key] # None
FirstPresent(d) ==
    IF Present(d, "authority") THEN d["authority"]
    ELSE IF Present(d, "owner") THEN d["owner"]
    ELSE IF Present(d, "multisigAuthority") THEN d["multisigAuthority"]
    ELSE None

\* C5: a structured instruction yields the first present, non-empty value among
\* authority, owner, multisigAuthority, in that order; with none of the three
\* it yields None and the scan continues; {owner: X} alone yields X.
C5_StructuredPriority ==
    (scan.pc \in {"loop", "done"} /\ HasList) =>
        \A k \in scan.inspected :
            Instr(k).tag = "parsed" =>
                LET d == FieldsOf(Instr(k))
                IN  /\ FirstPresent(d) # None =>
                           /\ Done /\ scan.idx = k
                           /\ scan.result = FirstPresent(d)
                    /\ FirstPresent(d) = None => scan.idx > k
                    /\ d = Fields(Missing, "OWNER", Missing) => scan.result = "OWNER"

\* an empty authority falls through to the owner, after an instruction with no field
C5_Witness ==
    /\ Done /\ HasList /\ NInstr >= 2
    /\ Instr(1).tag = "parsed"
    /\ FieldsOf(Instr(1)) = EmptyDict
    /\ Instr(2).tag = "parsed"
    /\ FieldsOf(Instr(2)) = Fields("", "OWNER", "MULTI")
    /\ scan.idx = 2
    /\ scan.result = "OWNER"

\* the program an instruction belongs to
ProgramOf(account_keys, ins) ==
    IF ins.tag = "raw"
    THEN account_keys.items[ins.program_id_index + 1].pubkey
    ELSE ins.program_id

\* C6: an address is never returned from an instruction whose program is not
\* one of the two token programs, for raw and for structured instructions.
C6_Original ==
    (Done /\ Truthy(scan.result)) =>
        ProgramOf(scan.response.account_keys, Instr(scan.idx))
            \in {TOKEN_PROGRAM_ID, TOKEN_2022_PROGRAM_ID}

C8_NoEscape ==
    /\ ~scan.escaped
    /\ scan.pc \in {"fetch", "loop"} => ENABLED NextExtract
    /\ (scan.pc = "loop" /\ HasList) => scan.idx <= NInstr + 1
    /\ Done => (scan.result = None \/ Truthy(scan.result))
    /\ Done => scan.line \in {78, 84, 106, 126, 132, 136}

\* the fetch raises and the call returns None from the outer handler
C8_Witness ==
    /\ Done
    /\ scan.response.kind = "rpc_error"
    /\ scan.line = 136
    /\ scan.result = None
    /\ ~scan.escaped

\* the transaction view is missing or lacks its account table or instruction list
StructurallyInvalid(r) ==
    \/ r.kind \in {"no_tx", "no_inner_tx", "no_message"}
    \/ r.kind = "ok" /\ (r.account_keys.isNone \/ r.instructions.isNone)

\* C9: the outcome is Found, NotFound or Malformed, and it is Malformed if and
\* only if the transaction view is structurally invalid; an invalid
\* transaction is never reported as NotFound.
C9_Original ==
    Done =>
        /\ ResultTag(scan.result) \in {"Found", "NotFound", "Malformed"}
        /\ ResultTag(scan.result) = "Malformed" <=> StructurallyInvalid(scan.response)
        /\ StructurallyInvalid(scan.response) => ResultTag(scan.result) # "NotFound"

----------------------------------------------------------------------------
(* Claims about reprocess_transactions (SpecReprocess) *)

Processed == Len(job.results)
\* some processed record of this signature got an address, and the last one that did
GotAddress(signature) ==
    {k \in 1..Processed : job.transactions[k].signature = signature /\ Truthy(job.results[k])}
LastAddress(signature) ==
    job.results[CHOOSE k \in GotAddress(signature) : \A m \in GotAddress(signature) : m <= k]

====
